---- MODULE Spec2Model ----
(***************************************************************************)
(* Model of pppd/plugins/dhcpv6relay/dhcpv6relay.c: the DHCPv6 relay       *)
(* plugin of pppd.  The state is the plugin's file-scope variables plus    *)
(* the part of the host and kernel the plugin acts on (the descriptor      *)
(* table and pppd's read-callback table).  Each handler of the plugin is   *)
(* one action; a handler runs to completion before the next is invoked     *)
(* (pppd is a single-threaded reactor).                                    *)
(*                                                                         *)
(* C arrays are 0-based and TLA+ sequences 1-based: buffer[i] in the       *)
(* source is At(buffer, i) here.                                           *)
(***************************************************************************)
EXTENDS Integers, Sequences, FiniteSets, TLC

(***************************************************************************)
(* Bounds of the model.                                                    *)
(***************************************************************************)
\* RLIMIT_NOFILE of the model: descriptors 3 .. 2 + MaxOpen can be open.
MaxOpen == 3
\* Datagrams on the wire are up to sizeof(buffer) + MaxExtra bytes long.
MaxExtra == 1
\* Identifier strings are up to MaxIdLen bytes long.
MaxIdLen == 240

(***************************************************************************)
(* Program constants.                                                      *)
(***************************************************************************)
\* unsigned char buffer[1024]
BufferSize == 1024
\* unsigned char fwd_head[256]
FwdHeadSize == 256
\* v[0].iov_len = 34: the fixed RELAY-FORW header
HeaderLen == 34

\* dhcpv6relay.h (values of RFC 8415 / IANA)
DHCPv6_MSGTYPE_SOLICIT == 1
DHCPv6_MSGTYPE_REPLY == 7
DHCPv6_MSGTYPE_RELAY_FORW == 12
DHCPv6_MSGTYPE_RELAY_REPL == 13
DHCPv6_OPTION_RELAY_MSG == 9
DHCPv6_OPTION_REMOTE_ID == 37
DHCPv6_OPTION_SUBSCRIBER_ID == 38
DHCPv6_OPTION_RELAY_PORT == 135

\* <sys/socket.h> of Linux
AF_INET == 2
AF_INET6 == 10

\* A null char pointer.
NULL == "NULL"

(***************************************************************************)
(* Helpers on bytes and sequences.                                         *)
(***************************************************************************)
At(s, i) == s[i + 1]

Min(a, b) == IF a < b THEN a ELSE b

MinOf(S) == CHOOSE x \in S : \A y \in S : x <= y

\* n copies of the filler pattern starting at offset k: byte i is (k + i) % 251
Pattern(k, n) == [i \in 1..n |-> (k + i) % 251]

(***************************************************************************)
(* State.                                                                  *)
(***************************************************************************)
VARIABLES
    dhcpv6relay_trusted,   \* static bool dhcpv6relay_trusted
    dhcpv6relay_server,    \* static char* dhcpv6relay_server
    dhcpv6relay_sa,        \* ss_family of struct sockaddr_storage dhcpv6relay_sa
    dhcpv6relay_sock_ll,   \* static int dhcpv6relay_sock_ll
    dhcpv6relay_sock_mc,   \* static int dhcpv6relay_sock_mc
    dhcpv6relay_upstream,  \* static int dhcpv6relay_upstream
    fds,                   \* kernel: open descriptor -> [addr, port]
    callbacks,             \* pppd: descriptors registered with add_fd_callback
    started,               \* pppd: option parsing is over, notifications run
    last                   \* what the most recent handler invocation did

vars == <<dhcpv6relay_trusted, dhcpv6relay_server, dhcpv6relay_sa,
          dhcpv6relay_sock_ll, dhcpv6relay_sock_mc, dhcpv6relay_upstream,
          fds, callbacks, started, last>>

(***************************************************************************)
(* The kernel's descriptor table.                                          *)
(***************************************************************************)
FdSpace == 3..(2 + MaxOpen)

OpenFds(f) == DOMAIN f

\* socket(2): -1, or the lowest free descriptor when the table has room.
socket(f) ==
    {-1} \cup (IF Cardinality(OpenFds(f)) < MaxOpen
               THEN {MinOf(FdSpace \ OpenFds(f))} ELSE {})

OpenFd(f, fd) ==
    [x \in OpenFds(f) \cup {fd} |->
        IF x = fd THEN [addr |-> "unbound", port |-> 0] ELSE f[x]]

\* close(2)
close(f, fd) == [x \in OpenFds(f) \ {fd} |-> f[x]]

\* bind(2): -1, or 0 when no other open socket holds the address (EADDRINUSE).
bind(f, fd, a) ==
    {-1} \cup (IF \E x \in OpenFds(f) : x # fd /\ f[x].addr = a
               THEN {} ELSE {0})

SetAddr(f, fd, a, p) == [f EXCEPT ![fd] = [addr |-> a, port |-> p]]

(***************************************************************************)
(* What a handler invocation did.                                          *)
(***************************************************************************)
NoId == [null |-> TRUE, str |-> <<>>]

NoEvent(name, outcome) ==
    [op |-> name, outcome |-> outcome,
     wire |-> <<>>, r |-> 0, buffer |-> <<>>, trusted |-> FALSE,
     class |-> "none", init_upstream |-> FALSE, sendmsg |-> FALSE,
     iov |-> <<>>, lens |-> <<>>, src |-> <<>>, sport |-> 0, lport |-> 0,
     remote_id |-> NoId, subscriber_id |-> NoId, closed |-> {}]

\* pppd is in its main loop: no handler of the plugin is on the stack.
InLoop == last.op = "none"

\* The handler has returned and pppd waits for the next event.
ReturnToLoop ==
    /\ ~InLoop
    /\ last' = NoEvent("none", "none")
    /\ UNCHANGED <<dhcpv6relay_trusted, dhcpv6relay_server, dhcpv6relay_sa,
                   dhcpv6relay_sock_ll, dhcpv6relay_sock_mc, dhcpv6relay_upstream,
                   fds, callbacks, started>>

(***************************************************************************)
(* dhcpv6relay_setserver (option dhcpv6-server) and the trust options.     *)
(***************************************************************************)
\* The loop over the getaddrinfo list: the first address, unless a later
\* one is IPv6.  ai is the list of address families, fam is ss_family.
RECURSIVE PickAddress(_, _)
PickAddress(ai, fam) ==
    IF ai = <<>> \/ fam = AF_INET6 THEN fam
    ELSE IF fam = 0 \/ Head(ai) = AF_INET6
         THEN IF Head(ai) = AF_INET6 THEN AF_INET6
              ELSE PickAddress(Tail(ai), Head(ai))
         ELSE PickAddress(Tail(ai), fam)

\* getaddrinfo(3): NULL on failure, else the families of the addresses found.
GetAddrInfo == {<<>>, <<AF_INET>>, <<AF_INET6>>, <<AF_INET, AF_INET6>>}

ServerArgs == {NULL, "", "dhcp.example"}

dhcpv6relay_setserver(arg, ai) ==
    /\ ~started
    /\ InLoop
    /\ IF arg = NULL \/ arg = ""
       THEN /\ dhcpv6relay_server' = NULL
            /\ UNCHANGED dhcpv6relay_sa
            /\ last' = NoEvent("setserver", "no_argument")
       ELSE IF ai = <<>>
       THEN /\ dhcpv6relay_server' = NULL
            /\ UNCHANGED dhcpv6relay_sa
            /\ last' = NoEvent("setserver", "getaddrinfo_failed")
       ELSE /\ dhcpv6relay_sa' = PickAddress(ai, 0)
            /\ dhcpv6relay_server' =
                 IF PickAddress(ai, 0) # 0 THEN arg ELSE NULL
            /\ last' = NoEvent("setserver", "resolved")
    /\ UNCHANGED <<dhcpv6relay_trusted, dhcpv6relay_sock_ll, dhcpv6relay_sock_mc,
                   dhcpv6relay_upstream, fds, callbacks, started>>

\* options dhcpv6-trusted (sets the flag) and dhcpv6-untrusted (clears it)
SetTrusted(b) ==
    /\ ~started
    /\ InLoop
    /\ dhcpv6relay_trusted' = b
    /\ UNCHANGED <<dhcpv6relay_server, dhcpv6relay_sa, dhcpv6relay_sock_ll,
                   dhcpv6relay_sock_mc, dhcpv6relay_upstream, fds, callbacks,
                   started, last>>

(***************************************************************************)
(* dhcpv6relay_down and dhcpv6relay_up.  K is the part of the state the    *)
(* two handlers act on: [ll, mc, fds, cbs], with the descriptors the call  *)
(* has passed to remove_fd and close so far.                               *)
(***************************************************************************)
Listen == [ll |-> dhcpv6relay_sock_ll, mc |-> dhcpv6relay_sock_mc,
           fds |-> fds, cbs |-> callbacks, closed |-> {}]

\* The LL branch without its test: remove_fd and close whatever the value.
DownLL_unguarded(K) ==
    [K EXCEPT !.cbs = @ \ {K.ll}, !.fds = close(@, K.ll), !.ll = -1,
              !.closed = @ \cup {K.ll}]

DownLL(K) ==
    IF K.ll >= 0
    THEN [K EXCEPT !.cbs = @ \ {K.ll}, !.fds = close(@, K.ll), !.ll = -1,
                   !.closed = @ \cup {K.ll}]
    ELSE K

DownMC(K) ==
    IF K.mc >= 0
    THEN [K EXCEPT !.cbs = @ \ {K.mc}, !.fds = close(@, K.mc), !.mc = -1,
                   !.closed = @ \cup {K.mc}]
    ELSE K

\* A teardown that closes the upstream socket together with the LL and MC ones.
Down_with_upstream(K) ==
    LET D == DownMC(DownLL(K))
        keep == {x \in OpenFds(D.fds) : D.fds[x].addr # "upstream"}
    IN  [D EXCEPT !.fds = [x \in keep |-> D.fds[x]],
                  !.closed = @ \cup (OpenFds(D.fds) \ keep)]

Down(K) == DownMC(DownLL(K))

Res(K, out) == [k |-> K, out |-> out]

\* bind of the MC socket, then the two add_fd_callback calls
UpBindMC(K, b) ==
    IF b < 0 THEN Res(Down(K), "mc_bind_failed")
    ELSE Res([K EXCEPT !.fds = SetAddr(@, K.mc, "mc", 547),
                       !.cbs = @ \cup {K.ll, K.mc}], "ready")

\* socket() for the MC socket
UpSocketMC(K, s) ==
    LET K1 == [K EXCEPT !.mc = s,
                        !.fds = IF s >= 0 THEN OpenFd(@, s) ELSE @]
    IN  IF s < 0 THEN {Res(Down(K1), "mc_socket_failed")}
        ELSE {UpBindMC(K1, b) : b \in bind(K1.fds, s, "mc")}

\* setsockopt(IPV6_JOIN_GROUP) on the LL socket
UpJoin(K, j) ==
    IF j < 0 THEN {Res(Down(K), "join_failed")}
    ELSE UNION {UpSocketMC(K, s) : s \in socket(K.fds)}

\* bind of the LL socket.  The inet_pton call that follows cannot return
\* < 0 for AF_INET6, so its error branch is never taken.
UpBindLL(K, b) ==
    IF b < 0 THEN {Res(Down(K), "ll_bind_failed")}
    ELSE LET K1 == [K EXCEPT !.fds = SetAddr(@, K.ll, "ll", 547)]
         IN  UNION {UpJoin(K1, j) : j \in {-1, 0}}

\* socket() for the LL socket
UpSocketLL(K, s) ==
    LET K1 == [K EXCEPT !.ll = s,
                        !.fds = IF s >= 0 THEN OpenFd(@, s) ELSE @]
    IN  IF s < 0 THEN {Res(Down(K1), "ll_socket_failed")}
        ELSE UNION {UpBindLL(K1, b) : b \in bind(K1.fds, s, "ll")}

\* dhcpv6relay_up without its test of dhcpv6relay_server.
UpResults_no_check(K) ==
    {Res(K, "populate_ll_failed"), Res(K, "getservbyname_failed")}
    \cup UNION {UpSocketLL(K, s) : s \in socket(K.fds)}

\* Every way dhcpv6relay_up can end from K.
UpResults(K) ==
    IF dhcpv6relay_server = NULL THEN {Res(K, "no_server")}
    ELSE {Res(K, "populate_ll_failed"), Res(K, "getservbyname_failed")}
         \cup UNION {UpSocketLL(K, s) : s \in socket(K.fds)}

dhcpv6relay_up ==
    \E res \in UpResults(Listen) :
        /\ InLoop
        /\ dhcpv6relay_sock_ll' = res.k.ll
        /\ dhcpv6relay_sock_mc' = res.k.mc
        /\ fds' = res.k.fds
        /\ callbacks' = res.k.cbs
        /\ started' = TRUE
        /\ last' = [NoEvent("up", res.out) EXCEPT !.closed = res.k.closed]
        /\ UNCHANGED <<dhcpv6relay_trusted, dhcpv6relay_server, dhcpv6relay_sa,
                       dhcpv6relay_upstream>>

dhcpv6relay_down ==
    /\ InLoop
    /\ dhcpv6relay_sock_ll' = Down(Listen).ll
    /\ dhcpv6relay_sock_mc' = Down(Listen).mc
    /\ fds' = Down(Listen).fds
    /\ callbacks' = Down(Listen).cbs
    /\ started' = TRUE
    /\ last' = [NoEvent("down", IF Down(Listen) = Listen
                                 THEN "nothing_to_close" ELSE "closed")
                   EXCEPT !.closed = Down(Listen).closed]
    /\ UNCHANGED <<dhcpv6relay_trusted, dhcpv6relay_server, dhcpv6relay_sa,
                   dhcpv6relay_upstream>>

(***************************************************************************)
(* dhcpv6relay_client_event: one datagram read from a listening socket.    *)
(***************************************************************************)
\* The build is for Linux on a little-endian machine (x86-64, arm64).
HostLittleEndian == TRUE

\* A port as the kernel stores it in sin6_port: network byte order.
PortBytes(p) == <<p \div 256, p % 256>>

\* The uint16_t the CPU loads from two bytes of memory.
LoadU16(mem) ==
    IF HostLittleEndian THEN mem[1] + 256 * mem[2] ELSE 256 * mem[1] + mem[2]

\* ntohs left out: the port is pushed as loaded.
ntohs_missing(x) == x

ntohs(x) ==
    IF HostLittleEndian THEN (x % 256) * 256 + (x \div 256) ELSE x

\* recvfrom(fd, buffer, sizeof(buffer), MSG_DONTWAIT, &sa, &slen): the
\* number of bytes stored, at most sizeof(buffer); a longer datagram is cut.
recvfrom_r(wire) == Min(Len(wire), BufferSize)

\* buffer[] after recvfrom: the r bytes received, then what the stack held.
recvfrom_buffer(wire, stale) == SubSeq(wire, 1, recvfrom_r(wire)) \o stale

\* Overrun with the test written r > sizeof(buffer).
Overrun_gt(r) == r > BufferSize

\* r >= sizeof(buffer)
Overrun(r) == r >= BufferSize

\* Classify with the trust test lost: RELAY_FORW is never discarded.
Classify_no_trust_test(b0, trusted) ==
    IF b0 = DHCPv6_MSGTYPE_REPLY \/ b0 = DHCPv6_MSGTYPE_RELAY_REPL
    THEN "drop_reply"
    ELSE "forward"

\* Classify with the first test on REPLY alone.
Classify_reply_only(b0, trusted) ==
    IF b0 = DHCPv6_MSGTYPE_REPLY
    THEN "drop_reply"
    ELSE IF ~trusted /\ b0 = DHCPv6_MSGTYPE_RELAY_FORW
    THEN "drop_relay"
    ELSE "forward"

\* Classify that also discards the types dhcpv6_type2string does not know.
Classify_known_only(b0, trusted) ==
    IF b0 = DHCPv6_MSGTYPE_REPLY \/ b0 = DHCPv6_MSGTYPE_RELAY_REPL
       \/ b0 < DHCPv6_MSGTYPE_SOLICIT \/ b0 > DHCPv6_MSGTYPE_RELAY_REPL
    THEN "drop_reply"
    ELSE IF ~trusted /\ b0 = DHCPv6_MSGTYPE_RELAY_FORW
    THEN "drop_relay"
    ELSE "forward"

\* The two discard tests on buffer[0].
Classify(b0, trusted) ==
    IF b0 = DHCPv6_MSGTYPE_REPLY \/ b0 = DHCPv6_MSGTYPE_RELAY_REPL
    THEN "drop_reply"
    ELSE IF ~trusted /\ b0 = DHCPv6_MSGTYPE_RELAY_FORW
    THEN "drop_relay"
    ELSE "forward"

\* fwd_head[1]: an unsigned char
HopCount(buffer) ==
    IF At(buffer, 0) = DHCPv6_MSGTYPE_RELAY_FORW
    THEN (At(buffer, 1) + 1) % 256
    ELSE 0

\* fwd_head[0 .. 33]
Header(buffer, sin6_addr) ==
    <<DHCPv6_MSGTYPE_RELAY_FORW, HopCount(buffer)>>
    \o [i \in 1..16 |-> 0] \o sin6_addr

\* The builder's state: head is fwd_head[0 .. v[0].iov_len - 1], ok is FALSE
\* once a push_checkbytes has returned from the handler, lens is the value
\* of v[0].iov_len after each step.
StartBuild(hdr) == [head |-> hdr, ok |-> TRUE, lens |-> <<Len(hdr)>>]

\* push_checkbytes with the comparison written >=.
push_checkbytes_ge(len, x) == x + len >= FwdHeadSize

push_checkbytes(len, x) == x + len > FwdHeadSize

push_uint16(B, val) ==
    IF ~B.ok THEN B
    ELSE IF push_checkbytes(Len(B.head), 2) THEN [B EXCEPT !.ok = FALSE]
    ELSE LET t == val % 65536
         IN  [B EXCEPT !.head = @ \o <<t \div 256, t % 256>>,
                       !.lens = Append(@, Len(B.head) + 2)]

push_bytes(B, ptr, bytes) ==
    IF ~B.ok THEN B
    ELSE IF push_checkbytes(Len(B.head), bytes) THEN [B EXCEPT !.ok = FALSE]
    ELSE [B EXCEPT !.head = @ \o SubSeq(ptr, 1, bytes),
                   !.lens = Append(@, Len(B.head) + bytes)]

PushRelayPort(B, sport) ==
    push_uint16(push_uint16(push_uint16(B, DHCPv6_OPTION_RELAY_PORT), 2),
                ntohs(sport))

PushId(B, code, id) ==
    IF id.null THEN B
    ELSE push_bytes(push_uint16(push_uint16(B, code), Len(id.str)),
                    id.str, Len(id.str))

\* PushRelayMsg writing v[0].iov_len for the option length.
PushRelayMsg_head_len(B, iov_len) ==
    push_uint16(push_uint16(B, DHCPv6_OPTION_RELAY_MSG), Len(B.head))

PushRelayMsg(B, iov_len) ==
    push_uint16(push_uint16(B, DHCPv6_OPTION_RELAY_MSG), iov_len)

\* Build with the subscriber-id pushed before the remote-id.
Build_swapped(buffer, sin6_addr, sa, remote_id, subscriber_id, r) ==
    PushRelayMsg(
        PushId(
            PushId(PushRelayPort(StartBuild(Header(buffer, sin6_addr)),
                                 LoadU16(sa.port)),
                   DHCPv6_OPTION_SUBSCRIBER_ID, subscriber_id),
            DHCPv6_OPTION_REMOTE_ID, remote_id),
        r)

\* sa is the handler's struct sockaddr_in6 when the options are written.
Build(buffer, sin6_addr, sa, remote_id, subscriber_id, r) ==
    PushRelayMsg(
        PushId(
            PushId(PushRelayPort(StartBuild(Header(buffer, sin6_addr)),
                                 LoadU16(sa.port)),
                   DHCPv6_OPTION_REMOTE_ID, remote_id),
            DHCPv6_OPTION_SUBSCRIBER_ID, subscriber_id),
        r)

\* The local address of the upstream socket when it is an IPv6 socket.
UpstreamLocalAddr == <<32, 1, 13, 184>> \o [i \in 1..11 |-> 0] \o <<5>>

\* getsockname(dhcpv6relay_upstream, &sa, &slen) overwrites sa: all of it
\* for an IPv6 socket; for an IPv4 socket the 16 bytes of a sockaddr_in,
\* whose sin_zero lies over the first 8 bytes of sin6_addr.
getsockname(f, fd, sa) ==
    [family |-> dhcpv6relay_sa, port |-> PortBytes(f[fd].port),
     addr |-> IF dhcpv6relay_sa = AF_INET6 THEN UpstreamLocalAddr
              ELSE [i \in 1..8 |-> 0] \o SubSeq(sa.addr, 9, 16)]

\* What the handler leaves behind: the upstream descriptor, the descriptor
\* table and the record of the invocation.
Ev(rx, stale, ids) ==
    [NoEvent("client_event", "none") EXCEPT
        !.wire = rx.wire, !.src = rx.src, !.sport = rx.sport,
        !.r = recvfrom_r(rx.wire),
        !.buffer = recvfrom_buffer(rx.wire, stale),
        !.trusted = dhcpv6relay_trusted,
        !.remote_id = ids[1], !.subscriber_id = ids[2]]

Out(up, f, ev, outcome) ==
    [up |-> up, fds |-> f, last |-> [ev EXCEPT !.outcome = outcome]]

\* From "populate the forward header" to sendmsg, on upstream socket up.
\* The header filled in after getsockname, from sa as it is then.
Relay_header_after_getsockname(up, f, ev) ==
    LET sa0 == [family |-> AF_INET6, port |-> PortBytes(ev.sport), addr |-> ev.src]
        sa1 == getsockname(f, up, sa0)
        B   == Build(ev.buffer, sa1.addr, sa1, ev.remote_id, ev.subscriber_id, ev.r)
        e1  == [ev EXCEPT !.lport = f[up].port, !.lens = B.lens]
        e2  == [e1 EXCEPT !.sendmsg = TRUE,
                          !.iov = <<B.head, SubSeq(ev.buffer, 1, ev.r)>>]
    IN  {Out(up, f, [ev EXCEPT !.lens = <<HeaderLen>>], "getsockname_failed")}
        \cup (IF ~B.ok THEN {Out(up, f, e1, "overflow")}
              ELSE {Out(up, f, e2, "send_failed"), Out(up, f, e2, "sent")})

Relay(up, f, ev) ==
    LET sa0 == [family |-> AF_INET6, port |-> PortBytes(ev.sport), addr |-> ev.src]
        sa1 == getsockname(f, up, sa0)
        B   == Build(ev.buffer, sa0.addr, sa1, ev.remote_id, ev.subscriber_id, ev.r)
        e1  == [ev EXCEPT !.lport = f[up].port, !.lens = B.lens]
        e2  == [e1 EXCEPT !.sendmsg = TRUE,
                          !.iov = <<B.head, SubSeq(ev.buffer, 1, ev.r)>>]
    IN  {Out(up, f, [ev EXCEPT !.lens = <<HeaderLen>>], "getsockname_failed")}
        \cup (IF ~B.ok THEN {Out(up, f, e1, "overflow")}
              ELSE {Out(up, f, e2, "send_failed"), Out(up, f, e2, "sent")})

\* Ephemeral ports the kernel gives the upstream socket at connect.
LocalPorts == {49153, 32770}

\* dhcpv6relay_init_upstream with socket() returning s
\* dhcpv6relay_init_upstream that closes the listening sockets as well when
\* connect fails.
InitUpstream_close_listeners(f, ev, s) ==
    IF s < 0 THEN {Out(-1, f, ev, "upstream_socket_failed")}
    ELSE {Out(-1, [x \in {y \in OpenFds(f) : f[y].addr = "upstream"} |-> f[x]],
              ev, "upstream_connect_failed")}
         \cup UNION {Relay(s, SetAddr(OpenFd(f, s), s, "upstream", p), ev)
                     : p \in LocalPorts}

\* dhcpv6relay_init_upstream that returns on a failed connect without closing
\* the socket and without resetting the descriptor.
InitUpstream_no_reset(f, ev, s) ==
    IF s < 0 THEN {Out(-1, f, ev, "upstream_socket_failed")}
    ELSE {Out(s, OpenFd(f, s), ev, "upstream_connect_failed")}
         \cup UNION {Relay(s, SetAddr(OpenFd(f, s), s, "upstream", p), ev)
                     : p \in LocalPorts}

InitUpstream(f, ev, s) ==
    IF s < 0 THEN {Out(-1, f, ev, "upstream_socket_failed")}
    ELSE {Out(-1, f, ev, "upstream_connect_failed")}
         \cup UNION {Relay(s, SetAddr(OpenFd(f, s), s, "upstream", p), ev)
                     : p \in LocalPorts}

\* The handler calling dhcpv6relay_init_upstream for every datagram it
\* forwards, whether or not dhcpv6relay_upstream is >= 0.
ClientResults_always_init(rx, stale, ids) ==
    LET ev == Ev(rx, stale, ids)
        cl == Classify(At(ev.buffer, 0), dhcpv6relay_trusted)
        e1 == [ev EXCEPT !.class = cl]
    IN  IF rx.err
        THEN {Out(dhcpv6relay_upstream, fds,
                  NoEvent("client_event", "none"), "read_failed")}
        ELSE IF Overrun(ev.r)
        THEN {Out(dhcpv6relay_upstream, fds, ev, "overrun")}
        ELSE IF cl # "forward"
        THEN {Out(dhcpv6relay_upstream, fds, e1, cl)}
        ELSE UNION {InitUpstream(fds, [e1 EXCEPT !.init_upstream = TRUE], s)
                    : s \in socket(fds)}

\* The handler making sure of the upstream session first, before it looks at
\* the size and the type of the datagram.
ClientResults_init_first(rx, stale, ids) ==
    LET ev == Ev(rx, stale, ids)
        cl == Classify(At(ev.buffer, 0), dhcpv6relay_trusted)
        e1 == [ev EXCEPT !.class = cl]
        ei == [ev EXCEPT !.init_upstream = TRUE]
        pre == IF dhcpv6relay_upstream >= 0
               THEN {[up |-> dhcpv6relay_upstream, f |-> fds, e |-> ev]}
               ELSE {[up |-> -1, f |-> fds, e |-> ei]}
                    \cup {[up |-> s, e |-> ei,
                           f |-> SetAddr(OpenFd(fds, s), s, "upstream", p)]
                          : s \in socket(fds) \ {-1}, p \in LocalPorts}
        After(pr) ==
            IF pr.up < 0 THEN {Out(-1, fds, pr.e, "upstream_connect_failed")}
            ELSE IF Overrun(ev.r) THEN {Out(pr.up, pr.f, pr.e, "overrun")}
            ELSE IF cl # "forward"
            THEN {Out(pr.up, pr.f, [pr.e EXCEPT !.class = cl], cl)}
            ELSE Relay(pr.up, pr.f, [pr.e EXCEPT !.class = cl])
    IN  IF rx.err
        THEN {Out(dhcpv6relay_upstream, fds,
                  NoEvent("client_event", "none"), "read_failed")}
        ELSE UNION {After(pr) : pr \in pre}

ClientResults(rx, stale, ids) ==
    LET ev == Ev(rx, stale, ids)
        cl == Classify(At(ev.buffer, 0), dhcpv6relay_trusted)
        e1 == [ev EXCEPT !.class = cl]
    IN  IF rx.err
        THEN {Out(dhcpv6relay_upstream, fds,
                  NoEvent("client_event", "none"), "read_failed")}
        ELSE IF Overrun(ev.r)
        THEN {Out(dhcpv6relay_upstream, fds, ev, "overrun")}
        ELSE IF cl # "forward"
        THEN {Out(dhcpv6relay_upstream, fds, e1, cl)}
        ELSE IF dhcpv6relay_upstream < 0
        THEN UNION {InitUpstream(fds, [e1 EXCEPT !.init_upstream = TRUE], s)
                    : s \in socket(fds)}
        ELSE Relay(dhcpv6relay_upstream, fds, e1)

(***************************************************************************)
(* The inputs of the handler.                                              *)
(***************************************************************************)
Id(n) == [null |-> FALSE, str |-> [i \in 1..n |-> 97 + (i % 26)]]

SmallIds == {NoId, Id(0), Id(3)}
MidPairs == {<<Id(100), Id(104)>>, <<Id(100), Id(105)>>,
             <<Id(104), Id(100)>>, <<Id(105), Id(100)>>}
BigIds == {Id(n) : n \in {204, 205, 208, 209, MaxIdLen}}

IdPairs ==
    (SmallIds \X SmallIds) \cup MidPairs
    \cup (BigIds \X {NoId, Id(0)}) \cup ({NoId, Id(0)} \X BigIds)

\* Every value of an octet.
Bytes == 0..255

\* Datagrams as sent by the peer.
Wires ==
    {<<>>}
    \cup {<<t>> : t \in Bytes}
    \cup {<<DHCPv6_MSGTYPE_RELAY_FORW, h>> : h \in Bytes}
    \cup {<<DHCPv6_MSGTYPE_SOLICIT, 255, 3>>, <<DHCPv6_MSGTYPE_REPLY, 0, 1, 2>>}
    \cup {<<t>> \o Pattern(t, n - 1) :
            t \in {DHCPv6_MSGTYPE_SOLICIT, DHCPv6_MSGTYPE_RELAY_FORW},
            n \in (BufferSize - 1)..(BufferSize + MaxExtra)}

PeerA == <<254, 128>> \o [i \in 1..13 |-> 0] \o <<1>>
PeerB == <<254, 128>> \o [i \in 1..6 |-> 0] \o Pattern(16, 8)

Rx(w, a, p) == [err |-> FALSE, wire |-> w, src |-> a, sport |-> p]

\* What recvfrom can deliver, with the identifiers pppd holds then.
Inputs ==
    {<<Rx(w, PeerA, 546), <<NoId, NoId>>>> : w \in Wires}
    \cup {<<Rx(<<DHCPv6_MSGTYPE_SOLICIT>>, PeerA, 546), ids>> : ids \in IdPairs}
    \cup {<<Rx(<<DHCPv6_MSGTYPE_SOLICIT, 0, 0>>, PeerB, p), <<Id(3), Id(3)>>>>
            : p \in {546, 4660}}
    \cup {<<Rx(<<DHCPv6_MSGTYPE_RELAY_FORW, 3>> \o Pattern(0, BufferSize - 3),
               PeerB, 4660), <<Id(3), Id(100)>>>>}
    \cup {<<[Rx(<<>>, PeerA, 0) EXCEPT !.err = TRUE], <<NoId, NoId>>>>}

\* What the stack holds in buffer[r .. 1] when fewer than 2 bytes arrive.
StaleBytes ==
    {DHCPv6_MSGTYPE_SOLICIT, DHCPv6_MSGTYPE_REPLY, DHCPv6_MSGTYPE_RELAY_FORW}

Stale(r) ==
    IF r = 0 THEN {<<a, b>> : a \in StaleBytes, b \in StaleBytes}
    ELSE IF r = 1 THEN {<<b>> : b \in StaleBytes}
    ELSE {<<>>}

\* pppd calls the handler for a registered descriptor that is readable.
dhcpv6relay_client_event(fd) ==
    /\ InLoop
    /\ fd \in callbacks
    /\ \E in \in Inputs :
       \E stale \in Stale(recvfrom_r(in[1].wire)) :
       \E res \in ClientResults(in[1], stale, in[2]) :
            /\ dhcpv6relay_upstream' = res.up
            /\ fds' = res.fds
            /\ last' = res.last
    /\ UNCHANGED <<dhcpv6relay_trusted, dhcpv6relay_server, dhcpv6relay_sa,
                   dhcpv6relay_sock_ll, dhcpv6relay_sock_mc, callbacks, started>>

(***************************************************************************)
(* Properties.                                                             *)
(***************************************************************************)
\* The handler read a datagram (recvfrom did not fail).
Handled == last.op = "client_event" /\ last.outcome # "read_failed"

\* The datagram has a first octet, and it is t.
FirstOctet(t) == Handled /\ Len(last.wire) >= 1 /\ last.wire[1] = t

\* The handler went past the classifier.
ForwardOutcomes ==
    {"upstream_socket_failed", "upstream_connect_failed", "getsockname_failed",
     "overflow", "send_failed", "sent"}

\* The datagram handed to sendmsg: the two segments, concatenated.
Packet == last.iov[1] \o last.iov[2]

U16(n) == <<n \div 256, n % 256>>

\* A decoder of the options region: the TLVs in order, code -1 for a rest
\* that is no whole TLV.
RECURSIVE ParseTLV(_)
ParseTLV(s) ==
    IF s = <<>> THEN <<>>
    ELSE IF Len(s) < 4 \/ Len(s) < 4 + (s[3] * 256 + s[4])
    THEN <<[code |-> -1, value |-> s]>>
    ELSE LET n == s[3] * 256 + s[4]
         IN  <<[code |-> s[1] * 256 + s[2], value |-> SubSeq(s, 5, 4 + n)]>>
             \o ParseTLV(SubSeq(s, 5 + n, Len(s)))

Options == ParseTLV(SubSeq(Packet, HeaderLen + 1, Len(Packet)))

\* The encoded size of an identifier option: 0 when the identifier is absent.
IdOptLen(id) == IF id.null THEN 0 ELSE 4 + Len(id.str)

\* C1: a datagram whose first octet is RELAY_FORW is dropped on an untrusted
\* link: the upstream session is not touched and sendmsg is not called.  On a
\* trusted link the classifier returns Forward for it and the handler goes
\* on to the upstream connect, build and send steps.
C1_RelayForwTrust ==
    FirstOctet(DHCPv6_MSGTYPE_RELAY_FORW) =>
        IF ~dhcpv6relay_trusted
        THEN /\ ~last.sendmsg
             /\ ~last.init_upstream
             /\ last.outcome \in {"drop_relay", "overrun"}
        ELSE ~Overrun(last.r) =>
             /\ last.class = "forward"
             /\ last.outcome \in ForwardOutcomes
             /\ last.sendmsg = (last.outcome \in {"send_failed", "sent"})

C1_Witness ==
    /\ FirstOctet(DHCPv6_MSGTYPE_RELAY_FORW)
    /\ ~dhcpv6relay_trusted
    /\ last.outcome = "drop_relay"
    /\ dhcpv6relay_upstream >= 0

\* C2: a datagram whose first octet is REPLY or RELAY_REPL is dropped and
\* nothing is sent upstream, whatever the trust flag.
C2_ReplyDropped ==
    (FirstOctet(DHCPv6_MSGTYPE_REPLY) \/ FirstOctet(DHCPv6_MSGTYPE_RELAY_REPL)) =>
        /\ ~last.sendmsg
        /\ ~last.init_upstream
        /\ last.iov = <<>>
        /\ last.outcome \in {"drop_reply", "overrun"}

C2_Witness ==
    /\ FirstOctet(DHCPv6_MSGTYPE_RELAY_REPL)
    /\ dhcpv6relay_trusted
    /\ last.outcome = "drop_reply"

\* The three rules of the classifier, in order.
RefClassifier(type, trust) ==
    IF type \in {DHCPv6_MSGTYPE_REPLY, DHCPv6_MSGTYPE_RELAY_REPL} THEN "Drop"
    ELSE IF type = DHCPv6_MSGTYPE_RELAY_FORW /\ ~trust THEN "Drop"
    ELSE "Forward"

\* C3: for a classified datagram the decision is RefClassifier of its first
\* octet and the trust flag; every first octet other than REPLY, RELAY_REPL
\* and RELAY_FORW is forwarded, trusted or not.
C3_OtherTypesForwarded ==
    (Handled /\ Len(last.wire) >= 1 /\ ~Overrun(last.r)) =>
        /\ (last.class = "forward")
             = (RefClassifier(last.wire[1], dhcpv6relay_trusted) = "Forward")
        /\ (last.outcome \in ForwardOutcomes) = (last.class = "forward")
        /\ last.wire[1] \notin {DHCPv6_MSGTYPE_REPLY, DHCPv6_MSGTYPE_RELAY_REPL,
                                DHCPv6_MSGTYPE_RELAY_FORW}
             => last.class = "forward"

C3_Witness ==
    /\ FirstOctet(255)
    /\ ~dhcpv6relay_trusted
    /\ last.class = "forward"
    /\ last.outcome = "sent"

\* C4 as claimed: no datagram of 1 .. 1024 bytes is dropped for its size.
C4_Limit1024Inclusive ==
    (Handled /\ Len(last.wire) \in 1..BufferSize) => last.outcome # "overrun"

\* C4, amended: a datagram is dropped for its size exactly when it is 1024
\* bytes or longer; then nothing is classified, connected or sent.  A
\* datagram of 1 .. 1023 bytes is classified, and what is sent for it holds
\* all of its bytes.
C4_Limit1023 ==
    Handled =>
        /\ (last.outcome = "overrun") = (Len(last.wire) >= BufferSize)
        /\ last.outcome = "overrun" =>
             ~last.sendmsg /\ ~last.init_upstream /\ last.class = "none"
             /\ last.iov = <<>>
        /\ Len(last.wire) \in 1..(BufferSize - 1) => last.class # "none"
        /\ last.sendmsg => last.iov[2] = last.wire

C4_Witness ==
    /\ Handled
    /\ Len(last.wire) = BufferSize - 1
    /\ last.outcome = "sent"
    /\ last.iov[2] = last.wire

\* C5: what is transmitted is two segments, the second the datagram as
\* received; the first ends with the RELAY_MSG code and the big-endian length
\* of the datagram, so that RELAY_MSG is the last TLV and its value is the
\* datagram.
C5_RelayMsgLast ==
    last.sendmsg =>
        /\ Len(last.iov) = 2
        /\ last.iov[2] = last.wire
        /\ Len(last.iov[1]) >= HeaderLen + 4
        /\ SubSeq(last.iov[1], Len(last.iov[1]) - 3, Len(last.iov[1]))
             = U16(DHCPv6_OPTION_RELAY_MSG) \o U16(Len(last.wire))
        /\ Options[Len(Options)]
             = [code |-> DHCPv6_OPTION_RELAY_MSG, value |-> last.wire]
        /\ \A i \in 1..(Len(Options) - 1) :
             Options[i].code \notin {-1, DHCPv6_OPTION_RELAY_MSG}

C5_Witness ==
    /\ last.sendmsg
    /\ last.outcome = "sent"
    /\ Len(last.wire) = BufferSize - 1
    /\ ~last.remote_id.null

\* C6 as claimed: the outer hop-count is 0 for a message that is not
\* RELAY_FORW and N + 1 for a RELAY_FORW whose hop-count byte is N.
C6_HopCount ==
    last.sendmsg =>
        /\ (Len(last.wire) >= 1 /\ last.wire[1] # DHCPv6_MSGTYPE_RELAY_FORW)
             => At(last.iov[1], 1) = 0
        /\ (Len(last.wire) >= 2 /\ last.wire[1] = DHCPv6_MSGTYPE_RELAY_FORW)
             => At(last.iov[1], 1) = At(last.wire, 1) + 1

\* The size of header and options, the value of RELAY_MSG left out.
HeadTotal ==
    HeaderLen + 6 + IdOptLen(last.remote_id) + IdOptLen(last.subscriber_id) + 4

\* The handler reached the option writes.
Built == Handled /\ last.outcome \in {"overflow", "send_failed", "sent"}

\* C7: when header and options exceed 256 bytes the handler returns without
\* calling sendmsg; when they fit (256 included) sendmsg is called with a
\* first segment of that size; v[0].iov_len never exceeds 256.
C7_Capacity ==
    /\ Built =>
        /\ (HeadTotal > FwdHeadSize) = (last.outcome = "overflow")
        /\ (HeadTotal <= FwdHeadSize) = last.sendmsg
        /\ last.outcome = "overflow" => last.iov = <<>>
        /\ last.sendmsg => Len(last.iov[1]) = HeadTotal
    /\ \A i \in 1..Len(last.lens) : last.lens[i] <= FwdHeadSize
    /\ last.sendmsg => Len(last.iov[1]) <= FwdHeadSize

C7_Witness ==
    /\ Built
    /\ HeadTotal = FwdHeadSize
    /\ last.outcome = "sent"
    /\ ~last.remote_id.null /\ ~last.subscriber_id.null

\* The TLV an identifier is to appear as: none when it is absent.
IdTLV(code, id) ==
    IF id.null THEN <<>> ELSE <<[code |-> code, value |-> id.str]>>

\* C8: after the 34-byte header come RELAY_PORT (2-byte value), REMOTE_ID when
\* there is a remote identifier, SUBSCRIBER_ID when there is a subscriber
\* identifier, and RELAY_MSG, each with a length equal to the size of its
\* value; the packet is 34 + 6 + [4 + |remote-id|] + [4 + |subscriber-id|]
\* + 4 + |D| bytes long.
C8_OptionOrder ==
    last.sendmsg =>
        /\ Options =
             <<[code |-> DHCPv6_OPTION_RELAY_PORT, value |-> Options[1].value]>>
             \o IdTLV(DHCPv6_OPTION_REMOTE_ID, last.remote_id)
             \o IdTLV(DHCPv6_OPTION_SUBSCRIBER_ID, last.subscriber_id)
             \o <<[code |-> DHCPv6_OPTION_RELAY_MSG, value |-> last.wire]>>
        /\ Len(Options[1].value) = 2
        /\ Len(Packet) = HeadTotal + Len(last.wire)
        /\ (last.remote_id.null /\ last.subscriber_id.null /\ Len(last.wire) = 1)
             => Len(Packet) = 45

C8_Witness ==
    /\ last.sendmsg
    /\ last.outcome = "sent"
    /\ ~last.remote_id.null /\ Len(last.remote_id.str) = 3
    /\ ~last.subscriber_id.null /\ Len(last.subscriber_id.str) = 3
    /\ Len(Options) = 4

\* The value of the RELAY_PORT option of the packet.
RelayPortValue == SubSeq(last.iov[1], HeaderLen + 5, HeaderLen + 6)

\* C9 as claimed: the RELAY_PORT value is the source port of the inbound
\* datagram.
C9_ClientSourcePort ==
    (last.sendmsg /\ Len(last.wire) >= 1) => RelayPortValue = U16(last.sport)

\* C9, amended: the RELAY_PORT value is the local port of the upstream
\* socket, as getsockname reports it, high byte first.
C9_UpstreamLocalPort ==
    last.sendmsg =>
        /\ dhcpv6relay_upstream \in OpenFds(fds)
        /\ RelayPortValue = U16(fds[dhcpv6relay_upstream].port)

C9_Witness ==
    /\ last.sendmsg
    /\ last.outcome = "sent"
    /\ last.sport = 546
    /\ fds[dhcpv6relay_upstream].port = 49153
    /\ RelayPortValue = <<192, 1>>

\* C10 as claimed: when dhcpv6relay_up has returned, either both listening
\* sockets are open, bound and registered, or there is none: both descriptors
\* are -1 and no callback is registered.
C10_UpAllOrNothing ==
    last.op = "up" =>
        \/ /\ dhcpv6relay_sock_ll >= 0 /\ dhcpv6relay_sock_mc >= 0
           /\ dhcpv6relay_sock_ll # dhcpv6relay_sock_mc
           /\ {dhcpv6relay_sock_ll, dhcpv6relay_sock_mc} \subseteq OpenFds(fds)
           /\ fds[dhcpv6relay_sock_ll].addr = "ll"
           /\ fds[dhcpv6relay_sock_mc].addr = "mc"
           /\ callbacks = {dhcpv6relay_sock_ll, dhcpv6relay_sock_mc}
        \/ /\ dhcpv6relay_sock_ll = -1 /\ dhcpv6relay_sock_mc = -1
           /\ callbacks = {}

\* A socket the relay created to listen on the PPP link (not the upstream one).
ListeningFds == {x \in OpenFds(fds) : fds[x].addr # "upstream"}

\* C11 as claimed: once dhcpv6relay_down has been handled, whatever link-up,
\* link-down and datagram events came before, both descriptors are -1 and no
\* listening socket of the relay is open or registered.
C11_NoListenerAfterDown ==
    last.op = "down" =>
        /\ dhcpv6relay_sock_ll = -1
        /\ dhcpv6relay_sock_mc = -1
        /\ callbacks = {}
        /\ ListeningFds = {}

\* C12: dhcpv6relay_down invoked with both descriptors -1 closes nothing,
\* unregisters nothing and changes no variable of the relay; and after any
\* dhcpv6relay_down a second one would change nothing (twice is once).
C12_DownIdempotent ==
    [][last'.op = "down" =>
         /\ Down(Listen)' = Listen'
         /\ (dhcpv6relay_sock_ll = -1 /\ dhcpv6relay_sock_mc = -1) =>
                /\ last'.outcome = "nothing_to_close"
                /\ last'.closed = {}
                /\ UNCHANGED <<dhcpv6relay_sock_ll, dhcpv6relay_sock_mc, fds,
                               callbacks, dhcpv6relay_upstream,
                               dhcpv6relay_server, dhcpv6relay_sa,
                               dhcpv6relay_trusted>>]_vars

\* dhcpv6relay_down ran in the Down state while sockets were open: the
\* upstream socket, or a listening socket no descriptor variable holds.
C12_Witness ==
    /\ last.op = "down"
    /\ last.outcome = "nothing_to_close"
    /\ dhcpv6relay_upstream >= 0
    /\ ListeningFds # {}

\* C13: while dhcpv6relay_server is NULL (the option never given, given with
\* no or an empty argument, or its resolution failed) every dhcpv6relay_up
\* returns at its first test: no socket is open, no callback is registered,
\* both descriptors are -1 and no datagram is handled.
C13_NoServerStaysDown ==
    /\ (last.op = "setserver"
        /\ last.outcome \in {"no_argument", "getaddrinfo_failed"})
           => dhcpv6relay_server = NULL
    /\ dhcpv6relay_server = NULL =>
           /\ dhcpv6relay_sock_ll = -1
           /\ dhcpv6relay_sock_mc = -1
           /\ dhcpv6relay_upstream = -1
           /\ fds = <<>>
           /\ callbacks = {}
           /\ last.op # "client_event"
           /\ (last.op = "up" => last.outcome = "no_server")

\* A link-up arrived after a server had been resolved and the option was then
\* cleared: the stored address is still there, the server name is not.
C13_Witness ==
    /\ last.op = "up"
    /\ last.outcome = "no_server"
    /\ dhcpv6relay_server = NULL
    /\ dhcpv6relay_sa # 0

\* C14: whatever the outcome of a datagram, dhcpv6relay_client_event leaves
\* dhcpv6relay_sock_ll, dhcpv6relay_sock_mc and the callback registrations as
\* they were, and every listening socket stays open with the same binding.
C14_ListenersUntouched ==
    [][last'.op = "client_event" =>
         /\ UNCHANGED <<dhcpv6relay_sock_ll, dhcpv6relay_sock_mc, callbacks>>
         /\ ListeningFds' = ListeningFds
         /\ \A x \in ListeningFds : fds'[x] = fds[x]]_vars

\* A datagram was dropped because the upstream connect failed, while both
\* listening sockets were up.
C14_Witness ==
    /\ last.op = "client_event"
    /\ last.outcome = "upstream_connect_failed"
    /\ dhcpv6relay_sock_ll >= 0
    /\ dhcpv6relay_sock_mc >= 0
    /\ callbacks = {dhcpv6relay_sock_ll, dhcpv6relay_sock_mc}
    /\ ListeningFds = callbacks

\* The open sockets created by dhcpv6relay_init_upstream.
UpstreamFds == {x \in OpenFds(fds) : fds[x].addr = "upstream"}

\* C15: dhcpv6relay_init_upstream is called exactly when a datagram is to be
\* forwarded and dhcpv6relay_upstream is < 0; at most one upstream socket is
\* open, it is the one dhcpv6relay_upstream names, and once the descriptor is
\* >= 0 it and its socket stay the same through every later event and send.
C15_SingleUpstream ==
    [][/\ Cardinality(UpstreamFds') <= 1
       /\ UpstreamFds' = IF dhcpv6relay_upstream' >= 0
                         THEN {dhcpv6relay_upstream'} ELSE {}
       /\ last'.op = "client_event" =>
            (last'.init_upstream <=>
                (last'.class = "forward" /\ dhcpv6relay_upstream < 0))
       /\ dhcpv6relay_upstream >= 0 =>
            /\ dhcpv6relay_upstream' = dhcpv6relay_upstream
            /\ fds'[dhcpv6relay_upstream] = fds[dhcpv6relay_upstream]
       /\ last'.sendmsg =>
            /\ dhcpv6relay_upstream' >= 0
            /\ last'.lport = fds'[dhcpv6relay_upstream'].port]_vars

\* A datagram was sent over an upstream socket that an earlier datagram had
\* created.
C15_Witness ==
    /\ last.op = "client_event"
    /\ last.outcome = "sent"
    /\ last.sendmsg
    /\ ~last.init_upstream
    /\ UpstreamFds = {dhcpv6relay_upstream}

UpstreamFailures == {"upstream_socket_failed", "upstream_connect_failed"}

\* C16: a datagram whose upstream socket() or connect() fails is dropped with
\* nothing sent; dhcpv6relay_upstream is left -1 with no upstream socket open
\* and the descriptor table as before; the listening sockets stay.  The
\* descriptor stays < 0 until a datagram is forwarded, and that datagram calls
\* dhcpv6relay_init_upstream again: it fails again, or the socket is created
\* and the handler goes on to build and send the datagram.
C16_UpstreamRetry ==
    [][/\ (last'.op = "client_event" /\ last'.outcome \in UpstreamFailures) =>
            /\ last'.init_upstream
            /\ ~last'.sendmsg
            /\ dhcpv6relay_upstream' = -1
            /\ UpstreamFds' = {}
            /\ fds' = fds
            /\ UNCHANGED <<dhcpv6relay_sock_ll, dhcpv6relay_sock_mc, callbacks>>
       /\ (dhcpv6relay_upstream < 0
           /\ ~(last'.op = "client_event" /\ last'.class = "forward")) =>
            dhcpv6relay_upstream' = dhcpv6relay_upstream
       /\ (dhcpv6relay_upstream < 0
           /\ last'.op = "client_event" /\ last'.class = "forward") =>
            /\ last'.init_upstream
            /\ \/ last'.outcome \in UpstreamFailures
               \/ /\ dhcpv6relay_upstream' >= 0
                  /\ UpstreamFds' = {dhcpv6relay_upstream'}
                  /\ last'.outcome \in ForwardOutcomes \ UpstreamFailures
                  /\ last'.outcome \in {"send_failed", "sent"} =>
                        /\ last'.sendmsg
                        /\ last'.iov[2] = last'.wire]_vars

\* The connect of a new upstream socket failed while the relay was listening:
\* the socket is gone and the descriptor is -1.
C16_Witness ==
    /\ last.op = "client_event"
    /\ last.outcome = "upstream_connect_failed"
    /\ last.init_upstream
    /\ dhcpv6relay_upstream = -1
    /\ callbacks # {}
    /\ UpstreamFds = {}

\* C17: the size test and the classifier come before the upstream session.
\* A datagram of 1024 bytes or more is dropped unclassified, and a datagram
\* dropped for its size or by the classifier calls neither
\* dhcpv6relay_init_upstream nor sendmsg and leaves the upstream descriptor
\* and the descriptor table as they were; the upstream socket changes only
\* while a datagram classified forward is handled.
C17_ChecksBeforeUpstream ==
    [][/\ (last'.op = "client_event" /\ last'.outcome # "read_failed"
           /\ last'.r >= BufferSize) =>
            last'.outcome = "overrun" /\ last'.class = "none"
       /\ (last'.op = "client_event"
           /\ (last'.outcome = "overrun"
               \/ last'.class \in {"drop_reply", "drop_relay"})) =>
            /\ ~last'.init_upstream
            /\ ~last'.sendmsg
            /\ dhcpv6relay_upstream' = dhcpv6relay_upstream
            /\ fds' = fds
       /\ (dhcpv6relay_upstream' # dhcpv6relay_upstream
           \/ UpstreamFds' # UpstreamFds) =>
            /\ last'.op = "client_event"
            /\ last'.class = "forward"
            /\ last'.init_upstream]_vars

\* A RELAY-FORW was dropped on an untrusted link before any upstream socket
\* existed.
C17_Witness ==
    /\ last.op = "client_event"
    /\ last.class = "drop_relay"
    /\ dhcpv6relay_upstream < 0
    /\ UpstreamFds = {}

\* C18: in every packet handed to sendmsg, header bytes 18..33 are the source
\* address recvfrom reported for the datagram and bytes 2..17 are zero,
\* although getsockname has overwritten sa by then.
C18_PeerAddress ==
    last.sendmsg =>
        /\ Len(last.src) = 16
        /\ SubSeq(last.iov[1], 19, 34) = last.src
        /\ SubSeq(last.iov[1], 3, 18) = [i \in 1..16 |-> 0]

\* A datagram from PeerB was sent over an IPv6 upstream socket, whose local
\* address getsockname wrote over sa.
C18_Witness ==
    /\ last.op = "client_event"
    /\ last.outcome = "sent"
    /\ last.sendmsg
    /\ last.src = PeerB
    /\ dhcpv6relay_sa = AF_INET6
    /\ getsockname(fds, dhcpv6relay_upstream,
                   [family |-> AF_INET6, port |-> PortBytes(last.sport),
                    addr |-> last.src]).addr # last.src

\* One content the stack can hold where buffer[0] and buffer[1] will be.
PriorContent == <<DHCPv6_MSGTYPE_SOLICIT, DHCPv6_MSGTYPE_SOLICIT>>

\* buffer[] had the r received bytes been stored over PriorContent.
BufferOverPrior ==
    SubSeq(last.wire, 1, last.r) \o SubSeq(PriorContent, last.r + 1, 2)

\* C19 as claimed: the drop/forward decision and the packet sent are a
\* function of the received bytes and the configuration alone, so they are
\* the ones the handler reaches with any one prior content of buffer[]: the
\* class is that of the received first octet, and the hop-count sent is the
\* one computed from received bytes.
C19_OnlyReceivedBytes ==
    (Handled /\ last.r < BufferSize) =>
        /\ last.class = Classify(At(BufferOverPrior, 0), last.trusted)
        /\ last.sendmsg => last.iov[1][2] = HopCount(BufferOverPrior)

\* C20: dhcpv6relay_down and dhcpv6relay_up leave dhcpv6relay_upstream and the
\* upstream socket as they were (they close only descriptors other than the
\* upstream one, and create no upstream socket), and so does a failed
\* sendmsg: the descriptor used before is still open and still the one held.
C20_UpstreamSurvivesLink ==
    [][/\ last'.op \in {"up", "down"} =>
            /\ dhcpv6relay_upstream' = dhcpv6relay_upstream
            /\ UpstreamFds' = UpstreamFds
            /\ \A x \in UpstreamFds : fds'[x] = fds[x]
            /\ last'.closed \cap UpstreamFds = {}
       /\ (last'.op = "client_event" /\ last'.outcome = "send_failed") =>
            /\ UpstreamFds' = {dhcpv6relay_upstream'}
            /\ dhcpv6relay_upstream >= 0 =>
                  /\ dhcpv6relay_upstream' = dhcpv6relay_upstream
                  /\ fds'[dhcpv6relay_upstream] = fds[dhcpv6relay_upstream]]_vars

\* A link-up brought both listening sockets up while the upstream socket of
\* an earlier link session was still open.
C20_Witness ==
    /\ last.op = "up"
    /\ last.outcome = "ready"
    /\ dhcpv6relay_upstream >= 0
    /\ UpstreamFds = {dhcpv6relay_upstream}
    /\ callbacks = {dhcpv6relay_sock_ll, dhcpv6relay_sock_mc}

Init ==
    /\ dhcpv6relay_trusted = FALSE
    /\ dhcpv6relay_server = NULL
    /\ dhcpv6relay_sa = 0
    /\ dhcpv6relay_sock_ll = -1
    /\ dhcpv6relay_sock_mc = -1
    /\ dhcpv6relay_upstream = -1
    /\ fds = <<>>
    /\ callbacks = {}
    /\ started = FALSE
    /\ last = NoEvent("none", "none")

Next ==
    \/ \E arg \in ServerArgs, ai \in GetAddrInfo : dhcpv6relay_setserver(arg, ai)
    \/ \E b \in BOOLEAN : SetTrusted(b)
    \/ dhcpv6relay_up
    \/ dhcpv6relay_down
    \/ \E fd \in FdSpace : dhcpv6relay_client_event(fd)
    \/ ReturnToLoop

Spec == Init /\ [][Next]_vars
====
